---- MODULE Spec2Model ----
(***************************************************************************)
(* Task-planning and execution-state engine of                             *)
(* backend/reasoning/meta_reasoning.js: the dependency resolver, the plan  *)
(* builder, the ReasoningStateManager and the step executor.               *)
(*                                                                         *)
(* Abstractions.  Free-text fields of a task (description, input, output)  *)
(* and timestamps are left out: no branch of the code reads them.  A       *)
(* collaborator result is the record of the fields the engine reads:       *)
(*   isNull   - the value is null/undefined (reading a field of it throws) *)
(*   success  - result.success is truthy                                   *)
(*   response - result.response is truthy                                  *)
(*   error    - it has an error field                                      *)
(* An error message is the sequence of its fragments; String.includes is   *)
(* a search for a fragment (Includes).  The array that holds a task's      *)
(* failure history is a heap object (arrays[ref]); the Maps hold refs, so  *)
(* that two Maps can share one array as they do in the code.               *)
(***************************************************************************)
EXTENDS Integers, Sequences, FiniteSets, TLC

VARIABLES
  pc,           \* position of the caller / of the executeNextStep call in flight
  raw,          \* what the decomposer (LLM) answers: [ok, tasks]
  context,      \* execution context: [github], whether userMsg mentions GitHub
  decomposed,   \* value returned by decomposeQuery
  warnings,     \* edges dropped by sortTasksByDependencies (its logger.warn)
  plan,         \* the Plan object the caller holds
  tasks,        \* stateManager.tasks    : id -> [state, type]
  results,      \* stateManager.results  : id -> result
  approaches,   \* stateManager.approaches : id -> ref of the failure array
  arrays,       \* heap of failure arrays : ref -> Seq([approach, error])
  checkpoints,  \* stateManager.checkpoints
  nextSerial,   \* identity given to the next checkpoint object
  peer,         \* the other plan a caller holds, its state manager and the
                \* position of its call in flight, while this one runs
  call          \* locals of the executeNextStep call in flight (step, error,
                \* alternative) and what was observed of the last call: its input
                \* cursor, what the collaborator did, the tasks it dispatched, the
                \* steps it inserted; calls and throws count the plan's calls

vars == <<pc, raw, context, decomposed, warnings, plan, tasks, results,
          approaches, arrays, checkpoints, nextSerial, peer, call>>

smVars == <<tasks, results, approaches, arrays, checkpoints, nextSerial>>

-----------------------------------------------------------------------------
(* Bounds of the model *)

MaxTasks == 2        \* longest decomposer answer in SpecResolver
MaxPriority == 2     \* priorities 1..MaxPriority
MaxCalls == 8        \* executeNextStep calls explored per plan
MaxThrows == 2       \* collaborator calls that throw, per plan
MaxManagerCalls == 4  \* method calls made on a state manager in SpecManager
MaxFaults == 3       \* collaborator calls that throw in a run of SpecFaults
MaxFailures == 4     \* failures recorded for the task in SpecAdvisor
MaxInjected == 3     \* tasks of a decomposition in SpecInjection
MaxSessionCalls == 2   \* executeNextStep calls on the first plan in SpecSessions
MaxSessionThrows == 1  \* collaborator calls that throw, per plan, in SpecSessions

-----------------------------------------------------------------------------
(* Sequence helpers *)

Range(s) == {s[i] : i \in DOMAIN s}

Reverse(s) == [i \in DOMAIN s |-> s[Len(s) + 1 - i]]

\* Array.prototype.splice(at, 0, x) with a 0-based index
Splice(s, at, x) == SubSeq(s, 1, at) \o <<x>> \o SubSeq(s, at + 1, Len(s))

\* Array.prototype.findIndex / indexOf over the positions that pass the test:
\* the first of them, 1-based, 0 when there is none
FindIndex(positions) ==
  IF positions = {} THEN 0
  ELSE CHOOSE i \in positions : \A j \in positions : i <= j

-----------------------------------------------------------------------------
(* Task model *)

TASK_STATES == [PENDING |-> "pending", IN_PROGRESS |-> "in_progress",
                COMPLETED |-> "completed", FAILED |-> "failed",
                SKIPPED |-> "skipped"]

typeOrder == <<"MEMORY_CHECK", "INTENT_CLASSIFICATION", "TOOL_SELECTION",
               "INFORMATION_GATHERING", "SYNTHESIS", "VERIFICATION">>

logicalOrder(type) ==
  CASE type = "TOOL_SELECTION" -> <<"INTENT_CLASSIFICATION", "MEMORY_CHECK">>
    [] type = "INFORMATION_GATHERING" -> <<"TOOL_SELECTION">>
    [] type = "SYNTHESIS" -> <<"INFORMATION_GATHERING">>
    [] type = "VERIFICATION" -> <<"SYNTHESIS">>
    [] OTHER -> <<>>

Task(id, type, deps, priority, optional) ==
  [id |-> id, type |-> type, dependencies |-> deps, priority |-> priority,
   optional |-> optional]

IdsOf(list) == {list[i].id : i \in DOMAIN list}

DistinctIds(list) == \A i, j \in DOMAIN list : list[i].id = list[j].id => i = j

-----------------------------------------------------------------------------
(* Dependency resolver *)

\* the first task of the type, whatever its priority
firstTaskOfType(list, depType) ==
  list[FindIndex({i \in DOMAIN list : list[i].type = depType})]

\* tasksByType[depType].sort((a, b) => a.priority - b.priority)[0]: the sort is
\* stable, so the first task of the type with the least priority number.
highestPriorityTask(list, depType) ==
  LET ofType == SelectSeq(list, LAMBDA t : t.type = depType)
      least == CHOOSE p \in {ofType[i].priority : i \in DOMAIN ofType} :
                 \A i \in DOMAIN ofType : p <= ofType[i].priority
  IN  ofType[FindIndex({i \in DOMAIN ofType : ofType[i].priority = least})]

\* taskMap.get(depId): with equal ids the Map keeps the last task
taskMapGet(list, depId) ==
  list[CHOOSE i \in DOMAIN list :
         list[i].id = depId /\ \A j \in DOMAIN list : list[j].id = depId => j <= i]

\* an injection that never finds an existing dependency
alreadyHasDepNever(list, task, depType) == FALSE

alreadyHasDep(list, task, depType) ==
  \E k \in DOMAIN task.dependencies :
    /\ task.dependencies[k] \in IdsOf(list)
    /\ taskMapGet(list, task.dependencies[k]).type = depType

RECURSIVE injectDependencies(_, _, _, _)
injectDependencies(list, task, required, k) ==
  IF k > Len(required) THEN <<>>
  ELSE LET depType == required[k]
           present == \E i \in DOMAIN list : list[i].type = depType
           add == IF present /\ ~alreadyHasDep(list, task, depType)
                    THEN <<highestPriorityTask(list, depType).id>>
                    ELSE <<>>
       IN  add \o injectDependencies(list, task, required, k + 1)

enforceLogicalDependencies(list) ==
  [i \in DOMAIN list |->
     [list[i] EXCEPT !.dependencies =
        @ \o injectDependencies(list, list[i], logicalOrder(list[i].type), 1)]]

\* graph.get(taskId)
graphGet(list, taskId) == taskMapGet(list, taskId).dependencies

RECURSIVE visit(_, _, _, _), visitAll(_, _, _, _, _)
\* visit(taskId) of sortTasksByDependencies; st = [visited, temp, result, dropped].
\* from is the task whose dependency is being followed ("" at top level): it
\* only labels the dropped edge.
visit(list, from, taskId, st) ==
  IF taskId \in st.temp
    THEN [st EXCEPT !.dropped = @ \cup {<<from, taskId>>}]
  ELSE IF taskId \in st.visited THEN st
  ELSE LET s1 == [st EXCEPT !.temp = @ \cup {taskId}]
           s2 == visitAll(list, taskId, graphGet(list, taskId), 1, s1)
       IN  [s2 EXCEPT !.temp = @ \ {taskId},
                      !.visited = @ \cup {taskId},
                      !.result = Append(@, taskId)]
visitAll(list, from, deps, k, st) ==
  IF k > Len(deps) THEN st
  ELSE visitAll(list, from, deps, k + 1,
                IF deps[k] \in IdsOf(list) THEN visit(list, from, deps[k], st)
                                           ELSE st)

RECURSIVE visitTasks(_, _, _)
visitTasks(list, i, st) ==
  IF i > Len(list) THEN st
  ELSE visitTasks(list, i + 1,
                  IF list[i].id \in st.visited THEN st
                                               ELSE visit(list, "", list[i].id, st))

\* a traversal that starts from the first task only
topoStateFromFirst(list) ==
  LET empty == [visited |-> {}, temp |-> {}, result |-> <<>>, dropped |-> {}]
  IN  IF list = <<>> THEN empty ELSE visit(list, "", list[1].id, empty)

topoState(list) ==
  visitTasks(list, 1, [visited |-> {}, temp |-> {}, result |-> <<>>, dropped |-> {}])

sortTasksByDependencies(list) ==
  LET order == Reverse(topoState(list).result)
  IN  [i \in DOMAIN order |-> taskMapGet(list, order[i])]

getDefaultTasks ==
  << [id |-> "task-1", type |-> "MEMORY_CHECK", dependencies |-> <<>>, priority |-> 1],
     [id |-> "task-2", type |-> "INTENT_CLASSIFICATION", dependencies |-> <<>>, priority |-> 1],
     [id |-> "task-3", type |-> "TOOL_SELECTION", dependencies |-> <<"task-2">>, priority |-> 2],
     [id |-> "task-4", type |-> "INFORMATION_GATHERING", dependencies |-> <<"task-3">>, priority |-> 3],
     [id |-> "task-5", type |-> "SYNTHESIS", dependencies |-> <<"task-4">>, priority |-> 4] >>

\* decomposeQuery: a reply that fails to parse (or a throw) gives the default tasks
decomposeQuery(reply) ==
  IF reply.ok THEN sortTasksByDependencies(enforceLogicalDependencies(reply.tasks))
              ELSE getDefaultTasks

-----------------------------------------------------------------------------
(* Collaborator results and error messages *)

Result(success, response) ==
  [isNull |-> FALSE, success |-> success, response |-> response, error |-> FALSE]

\* { success: false, error: ... }, and a tool's { error: ... }
ErrorPayload == [isNull |-> FALSE, success |-> FALSE, response |-> FALSE, error |-> TRUE]

NullResult == [isNull |-> TRUE, success |-> FALSE, response |-> FALSE, error |-> FALSE]

\* String.prototype.includes on a message: "parameter" is part of the fragment
\* "Missing required parameter"
FragmentIncludes(fragment, pattern) ==
  \/ fragment = pattern
  \/ fragment = "Missing required parameter" /\ pattern = "parameter"

Includes(message, pattern) ==
  \E i \in DOMAIN message : FragmentIncludes(message[i], pattern)

-----------------------------------------------------------------------------
(* ReasoningStateManager.  sm is the record of the manager's fields. *)

NewStateManager ==
  [tasks |-> <<>>, results |-> <<>>, approaches |-> <<>>, arrays |-> <<>>,
   checkpoints |-> <<>>, nextSerial |-> 1]

MaxCheckpoints == 10

\* Map.prototype.set
MapSet(map, key, value) == [k \in DOMAIN map \cup {key} |-> IF k = key THEN value ELSE map[k]]

\* a createCheckpoint that evicts nothing
createCheckpointKeepAll(sm, name) ==
  [sm EXCEPT !.checkpoints =
               Append(@, [name |-> name,
                          serial |-> sm.nextSerial,
                          taskStates |-> [id \in DOMAIN sm.tasks |-> sm.tasks[id].state],
                          resultsSnapshot |-> sm.results,
                          approachesSnapshot |-> sm.approaches]),
             !.nextSerial = @ + 1]

createCheckpoint(sm, name) ==
  LET checkpoint == [name |-> name,
                     serial |-> sm.nextSerial,
                     taskStates |-> [id \in DOMAIN sm.tasks |-> sm.tasks[id].state],
                     resultsSnapshot |-> sm.results,
                     approachesSnapshot |-> sm.approaches]
      pushed == Append(sm.checkpoints, checkpoint)
  IN  [sm EXCEPT !.checkpoints = IF Len(pushed) > MaxCheckpoints THEN Tail(pushed) ELSE pushed,
                 !.nextSerial = @ + 1]

\* what reading a missing property gives
Undefined == "undefined"

\* step.id || `task-${index}`, index 0-based
taskIdOf(step, index) ==
  IF step.id = Undefined THEN "task-" \o ToString(index) ELSE step.id

RECURSIVE registerSteps(_, _, _)
registerSteps(map, steps, i) ==
  IF i > Len(steps) THEN map
  ELSE registerSteps(MapSet(map, taskIdOf(steps[i], i - 1),
                           [state |-> TASK_STATES.PENDING, type |-> steps[i].type]),
                    steps, i + 1)

initializePlan(sm, steps) ==
  createCheckpoint([sm EXCEPT !.tasks = registerSteps(@, steps, 1)], "plan_initialized")

\* The value restoreCheckpoint stores for a task: the checkpoint's state string
\* itself (primitive), not a task object, so that task.state and task.type are
\* undefined.  When the checkpoint held undefined, the value is undefined.
RestoredTask(stateString) ==
  [state |-> Undefined, type |-> Undefined, primitive |-> stateString]

\* this.tasks.get(id) is undefined
IsUndefinedTask(task) == "primitive" \in DOMAIN task /\ task.primitive = Undefined

\* createCheckpoint reads task.state of every task: a TypeError on an
\* undefined task, before anything is pushed
createCheckpointThrows(sm) ==
  \E id \in DOMAIN sm.tasks : IsUndefinedTask(sm.tasks[id])

\* checkpoints.find(cp => cp.name === name): the oldest retained one of the name
findCheckpoint(sm, name) ==
  FindIndex({i \in DOMAIN sm.checkpoints : sm.checkpoints[i].name = name})

\* a restore that stops after the task states
restoreCheckpointTasksOnly(sm, name) ==
  LET k == findCheckpoint(sm, name)
  IN  IF k = 0 THEN sm
      ELSE [sm EXCEPT !.tasks = [id \in DOMAIN sm.checkpoints[k].taskStates |->
                                   RestoredTask(sm.checkpoints[k].taskStates[id])]]

restoreCheckpoint(sm, name) ==
  LET k == findCheckpoint(sm, name)
      checkpoint == sm.checkpoints[k]
  IN  IF k = 0 THEN sm
      ELSE [sm EXCEPT !.tasks = [id \in DOMAIN checkpoint.taskStates |->
                                   RestoredTask(checkpoint.taskStates[id])],
                      !.results = checkpoint.resultsSnapshot,
                      !.approaches = checkpoint.approachesSnapshot]

\* {...task, state: newState} keeps what the stored value had
updateTaskState(sm, taskId, newState) ==
  IF taskId \notin DOMAIN sm.tasks THEN sm
  ELSE IF IsUndefinedTask(sm.tasks[taskId]) THEN sm
  ELSE [sm EXCEPT !.tasks[taskId].state = newState]

\* recordSuccess up to its createCheckpoint
\* a recordSuccess that leaves the task's state alone
successRecordedKeepsState(sm, taskId, result) ==
  [sm EXCEPT !.results = MapSet(@, taskId, result)]

successRecorded(sm, taskId, result) ==
  LET s1 == updateTaskState(sm, taskId, TASK_STATES.COMPLETED)
  IN  [s1 EXCEPT !.results = MapSet(@, taskId, result)]

recordSuccess(sm, taskId, result) ==
  createCheckpoint(successRecorded(sm, taskId, result), "task_" \o taskId \o "_completed")

\* approaches.get(taskId).push(...) writes the array object itself: every Map
\* that holds the same array sees the new entry.
failureRecordedInOneArray(sm, taskId, approach, error) ==
  LET s1 == updateTaskState(sm, taskId, TASK_STATES.FAILED)
      s2 == [s1 EXCEPT !.arrays = IF @ = <<>> THEN << <<>> >> ELSE @,
                       !.approaches = MapSet(@, taskId, 1)]
  IN  [s2 EXCEPT !.arrays[1] = Append(@, [approach |-> approach, error |-> error])]

failureRecorded(sm, taskId, approach, error) ==
  LET s1 == updateTaskState(sm, taskId, TASK_STATES.FAILED)
      s2 == IF taskId \in DOMAIN s1.approaches THEN s1
            ELSE [s1 EXCEPT !.arrays = Append(@, <<>>),
                            !.approaches = MapSet(@, taskId, Len(s1.arrays) + 1)]
  IN  [s2 EXCEPT !.arrays[s2.approaches[taskId]] =
                    Append(@, [approach |-> approach, error |-> error])]

recordFailure(sm, taskId, approach, error) ==
  createCheckpoint(failureRecorded(sm, taskId, approach, error),
                   "task_" \o taskId \o "_failed")

\* a status report that counts nothing
getTaskStatusEmpty(sm) ==
  [pending |-> 0, inProgress |-> 0, completed |-> 0, failed |-> 0, skipped |-> 0,
   total |-> Cardinality(DOMAIN sm.tasks)]

\* getTaskStatus: a task whose state is none of the five is counted in total only
getTaskStatus(sm) ==
  LET count(state) == Cardinality({id \in DOMAIN sm.tasks : sm.tasks[id].state = state})
  IN  [pending |-> count(TASK_STATES.PENDING),
       inProgress |-> count(TASK_STATES.IN_PROGRESS),
       completed |-> count(TASK_STATES.COMPLETED),
       failed |-> count(TASK_STATES.FAILED),
       skipped |-> count(TASK_STATES.SKIPPED),
       total |-> Cardinality(DOMAIN sm.tasks)]

\* this.approaches.get(taskId) || []
failedApproaches(sm, taskId) ==
  IF taskId \in DOMAIN sm.approaches THEN sm.arrays[sm.approaches[taskId]] ELSE <<>>

\* confidence is in tenths
Suggestion(approach, confidence) == [approach |-> approach, confidence |-> confidence]

toolPriorities == <<Suggestion("WEB_SEARCH", 9), Suggestion("READ_URL", 8),
                    Suggestion("MEMORY_CHECK", 7), Suggestion("REASONING_TOOL", 6)>>

\* an Advisor that takes the last untried collaborator
suggestAlternativeInfoGatheringLast(tried) ==
  LET untried == {i \in DOMAIN toolPriorities : toolPriorities[i].approach \notin Range(tried)}
  IN  IF untried # {} THEN toolPriorities[CHOOSE i \in untried : \A j \in untried : j <= i]
      ELSE Suggestion("ASK_CLARIFICATION", 5)

suggestAlternativeInfoGathering(tried) ==
  LET k == FindIndex({i \in DOMAIN toolPriorities :
                          toolPriorities[i].approach \notin Range(tried)})
  IN  IF k > 0 THEN toolPriorities[k]
      ELSE IF "DIRECT_SYNTHESIS" \notin Range(tried) THEN Suggestion("DIRECT_SYNTHESIS", 7)
      ELSE Suggestion("ASK_CLARIFICATION", 5)

suggestAlternativeTool(tried, ctx) ==
  IF ctx.github /\ "READ_URL" \notin Range(tried) THEN Suggestion("READ_URL", 8)
  ELSE IF "REASONING_TOOL" \notin Range(tried) /\ "WEB_SEARCH" \in Range(tried)
    THEN Suggestion("REASONING_TOOL", 7)
  ELSE Suggestion("ASK_CLARIFICATION", 5)

\* an Advisor that reads no error message
suggestAlternativeByType(sm, taskId, ctx) ==
  LET failed == failedApproaches(sm, taskId)
      tried == [i \in DOMAIN failed |-> failed[i].approach]
  IN  IF Len(failed) = 0 THEN Suggestion("default", 10)
      ELSE IF Len(tried) >= 3 THEN Suggestion("DIRECT_RESPONSE", 6)
      ELSE IF sm.tasks[taskId].type = "INFORMATION_GATHERING"
        THEN suggestAlternativeInfoGathering(tried)
      ELSE Suggestion("ASK_CLARIFICATION", 5)

\* Returns Suggestion("null", 0) for the code's null (unregistered task).
suggestAlternativeApproach(sm, taskId, ctx) ==
  LET failed == failedApproaches(sm, taskId)
      taskType == sm.tasks[taskId].type
      tried == [i \in DOMAIN failed |-> failed[i].approach]
      errorPatterns == [i \in DOMAIN failed |-> failed[i].error]
      some(pattern) == \E i \in DOMAIN errorPatterns : Includes(errorPatterns[i], pattern)
  IN  IF taskId \notin DOMAIN sm.tasks \/ IsUndefinedTask(sm.tasks[taskId])
        THEN Suggestion("null", 0)
      ELSE IF Len(failed) = 0 THEN Suggestion("default", 10)
      ELSE IF Len(tried) >= 3 THEN Suggestion("DIRECT_RESPONSE", 6)
      ELSE IF some("Invalid URL") \/ some("undefined") THEN Suggestion("SINGLE_URL_PROCESSING", 8)
      ELSE IF (some("Missing required parameter") \/ some("parameter")) /\ some("problem")
        THEN Suggestion("WEB_SEARCH", 7)
      ELSE IF taskType = "INFORMATION_GATHERING" THEN suggestAlternativeInfoGathering(tried)
      ELSE IF taskType = "SYNTHESIS" /\ "DIRECT_SYNTHESIS" \notin Range(tried)
        THEN Suggestion("DIRECT_SYNTHESIS", 8)
      ELSE IF taskType = "TOOL_SELECTION" THEN suggestAlternativeTool(tried, ctx)
      ELSE Suggestion("ASK_CLARIFICATION", 5)

-----------------------------------------------------------------------------
(* Plan builder *)

typeRank(type) ==
  LET ia == FindIndex({i \in DOMAIN typeOrder : typeOrder[i] = type})
  IN  IF ia > 0 THEN ia - 1 ELSE Len(typeOrder)

RECURSIVE stableSortFrom(_, _)
\* Array.prototype.sort with the comparator va - vb (stable)
stableSortFrom(steps, rank) ==
  IF rank > Len(typeOrder) THEN <<>>
  ELSE SelectSeq(steps, LAMBDA s : typeRank(s.type) = rank) \o stableSortFrom(steps, rank + 1)

canonicalSort(steps) == stableSortFrom(steps, 0)

toStep(task) ==
  [id |-> task.id, type |-> task.type, dependencies |-> task.dependencies,
   priority |-> task.priority,
   optional |-> IF "optional" \in DOMAIN task THEN task.optional ELSE FALSE]

memoryBookend ==
  [id |-> "task-memory", type |-> "MEMORY_CHECK", dependencies |-> <<>>,
   priority |-> 0, optional |-> FALSE]

verificationBookend ==
  [id |-> "task-verification", type |-> "VERIFICATION", dependencies |-> <<>>,
   priority |-> Len(typeOrder), optional |-> FALSE]

\* a plan builder that adds no bookend
withoutBookends(steps) == steps

withBookends(steps) ==
  LET existingTypes == {steps[i].type : i \in DOMAIN steps}
      front == IF "MEMORY_CHECK" \notin existingTypes THEN <<memoryBookend>> ELSE <<>>
      back == IF "VERIFICATION" \notin existingTypes THEN <<verificationBookend>> ELSE <<>>
  IN  front \o steps \o back

\* the steps of the Plan planQueryExecution returns for the decomposed tasks
planSteps(decomposedTasks) ==
  withBookends(canonicalSort([i \in DOMAIN decomposedTasks |-> toStep(decomposedTasks[i])]))

\* getDefaultSteps: steps without id, dependencies or priority (a missing id
\* reads as undefined, a missing dependency list as none)
defaultStep(type) ==
  [id |-> Undefined, type |-> type, optional |-> FALSE, dependencies |-> <<>>]

getDefaultSteps ==
  << defaultStep("MEMORY_CHECK"), defaultStep("INTENT_CLASSIFICATION"),
     defaultStep("TOOL_SELECTION"), defaultStep("INFORMATION_GATHERING"),
     defaultStep("SYNTHESIS") >>

NoError == <<>>

\* the message of the TypeError raised by error.message in the catch block of
\* decomposeQuery when the decomposer rejected with undefined
RejectionError == <<"Cannot read properties of ", "undefined">>

newPlan(steps) ==
  [steps |-> steps, currentStepIndex |-> 0, results |-> <<>>, completed |-> FALSE,
   lastStepSuccessful |-> FALSE, usedAlternative |-> FALSE, skippedStep |-> FALSE,
   error |-> NoError]

-----------------------------------------------------------------------------
(* Step executor: the synchronous parts of executeNextStep *)

\* previousResults.filter(r => r.step.type === type && r.result.success)
successfulOfType(planResults, type) ==
  SelectSeq(planResults, LAMBDA r : r.step.type = type /\ r.result.success)

\* reading r.result.success of a null result is a TypeError
filterThrows(planResults, type) ==
  \E i \in DOMAIN planResults :
    planResults[i].step.type = type /\ planResults[i].result.isNull

Validation(valid, fixable, missingStep, threw) ==
  [valid |-> valid, fixable |-> fixable, missingStep |-> missingStep, threw |-> threw]

\* a validator that asks for nothing
requiredResultNone(type) == ""

requiredResult(type) ==
  CASE type = "SYNTHESIS" -> "INFORMATION_GATHERING"
    [] type = "VERIFICATION" -> "SYNTHESIS"
    [] type = "INFORMATION_GATHERING" -> "TOOL_SELECTION"
    [] OTHER -> ""

\* a validator that accepts every step
validateStepInputsAlways(step, planResults) == Validation(TRUE, FALSE, "", FALSE)

validateStepInputs(step, planResults) ==
  LET needed == requiredResult(step.type)
  IN  IF needed = "" THEN Validation(TRUE, FALSE, "", FALSE)
      ELSE IF filterThrows(planResults, needed) THEN Validation(FALSE, FALSE, "", TRUE)
      ELSE IF Len(successfulOfType(planResults, needed)) = 0
        THEN Validation(FALSE, TRUE, needed, FALSE)
      ELSE Validation(TRUE, FALSE, "", FALSE)

\* a fixing step that is always a TOOL_SELECTION task
createFixingStepOfTool(originalStep, validation) ==
  [id |-> "fix-" \o originalStep.id, type |-> "TOOL_SELECTION",
   optional |-> FALSE, dependencies |-> originalStep.dependencies]

createFixingStep(originalStep, validation) ==
  [id |-> "fix-" \o originalStep.id, type |-> validation.missingStep,
   optional |-> FALSE, dependencies |-> originalStep.dependencies]

RECURSIVE enterStep(_, _, _, _, _)
\* executeNextStep from its first line to the first await, for a cursor inside
\* the plan, the recursive calls included.  Gives the steps array and the state
\* manager as they are left, the step reached, and how the call goes on:
\* "dispatch" (a collaborator is awaited), "skip" (the call returns) or
\* "throw" (validateStepInputs threw).
enterStep(steps, cursor, planResults, sm, inserted) ==
  LET currentStep == steps[cursor + 1]
      validationResult == validateStepInputs(currentStep, planResults)
      fixed == Splice(steps, cursor, createFixingStep(currentStep, validationResult))
      Leave(how, manager) ==
        [how |-> how, steps |-> steps, sm |-> manager, step |-> currentStep,
         inserted |-> inserted]
  IN  IF validationResult.threw THEN Leave("throw", sm)
      ELSE IF ~validationResult.valid
        THEN IF validationResult.fixable
               THEN enterStep(fixed, cursor, planResults, initializePlan(sm, fixed),
                              inserted + 1)
               ELSE Leave("skip", updateTaskState(sm, currentStep.id, TASK_STATES.SKIPPED))
      ELSE Leave("dispatch", updateTaskState(sm, currentStep.id, TASK_STATES.IN_PROGRESS))

\* executeVerification
executeVerification(planResults) ==
  LET k == FindIndex({i \in DOMAIN planResults : planResults[i].step.type = "SYNTHESIS"})
  IN  IF k > 0 /\ ~planResults[k].result.isNull /\ planResults[k].result.response
        THEN Result(TRUE, TRUE)
        ELSE ErrorPayload

\* What the awaited execute* function of the step can resolve to
\* (the default branch of the switch awaits nothing).
normalResults(step, planResults) ==
  CASE step.type = "MEMORY_CHECK" -> {Result(TRUE, FALSE), Result(FALSE, FALSE)}
    [] step.type = "INTENT_CLASSIFICATION" -> {Result(TRUE, FALSE)}
    [] step.type = "TOOL_SELECTION" -> {Result(TRUE, FALSE)}
    [] step.type = "INFORMATION_GATHERING" -> {Result(TRUE, FALSE), ErrorPayload}
    [] step.type = "SYNTHESIS" -> {Result(TRUE, TRUE), ErrorPayload}
    [] step.type = "VERIFICATION" -> {executeVerification(planResults)}
    [] OTHER -> {ErrorPayload}

\* Messages of the errors collaborators throw in the model
Messages == {<<"boom">>, <<"x is", "undefined">>,
             <<"Missing required parameter", ": ", "problem">>}

Thrown(message) == [hasMessage |-> TRUE, message |-> message]

\* a rejection with null/undefined: error.message is a TypeError
ThrownNothing == [hasMessage |-> FALSE, message |-> <<>>]

\* The values the awaited execute* function of the step can throw:
\* executeInformationGathering and executeVerification catch or never throw,
\* executeSynthesis throws Errors only.
normalThrows(step) ==
  CASE step.type \in {"MEMORY_CHECK", "INTENT_CLASSIFICATION", "TOOL_SELECTION"} ->
         {Thrown(m) : m \in Messages} \cup {ThrownNothing}
    [] step.type = "SYNTHESIS" -> {Thrown(m) : m \in Messages}
    [] OTHER -> {}

ToolApproaches == {"WEB_SEARCH", "READ_URL", "REASONING_TOOL"}

AwaitedApproaches == ToolApproaches \cup {"SINGLE_URL_PROCESSING", "DIRECT_SYNTHESIS"}

\* What the collaborator of an alternative approach can resolve to:
\* executeToolWithName returns whatever the tool's run returns.
alternativeResults(approach) ==
  CASE approach \in ToolApproaches -> {Result(TRUE, FALSE), ErrorPayload, NullResult}
    [] approach = "SINGLE_URL_PROCESSING" -> {Result(TRUE, FALSE), ErrorPayload}
    [] approach = "DIRECT_SYNTHESIS" -> {Result(TRUE, TRUE), ErrorPayload}
    [] OTHER -> {ErrorPayload}

\* executeToolWithName rethrows as new Error(`Error executing tool ${toolName}: ...`);
\* executeSingleUrlProcessing and executeDirectSynthesis catch everything.
alternativeThrows(approach) ==
  IF approach \in ToolApproaches
    THEN {Thrown(<<"Error executing tool ", approach, ": ">> \o m) : m \in Messages}
    ELSE {}

\* the object returned after a successful (or so recorded) execution
successReturn(p, step, result, alternative) ==
  LET entry == IF alternative = ""
                 THEN [step |-> step, result |-> result]
                 ELSE [step |-> step, result |-> result, alternative |-> alternative]
  IN  [p EXCEPT !.results = Append(@, entry),
                !.currentStepIndex = @ + 1,
                !.completed = p.currentStepIndex + 1 >= Len(p.steps),
                !.lastStepSuccessful = TRUE,
                !.usedAlternative = IF alternative = "" THEN @ ELSE TRUE]

\* the end of the catch block: skip an optional step, else report the error
failureReturn(p, step, error) ==
  IF step.optional
    THEN [p EXCEPT !.currentStepIndex = @ + 1,
                   !.completed = p.currentStepIndex + 1 >= Len(p.steps),
                   !.lastStepSuccessful = FALSE,
                   !.skippedStep = TRUE]
    ELSE [p EXCEPT !.error = error.message,
                   !.currentStepIndex = @ + 1,
                   !.completed = p.currentStepIndex + 1 >= Len(p.steps),
                   !.lastStepSuccessful = FALSE]

failureState(sm, step) ==
  IF step.optional THEN updateTaskState(sm, step.id, TASK_STATES.SKIPPED) ELSE sm

\* the object returned when validation fails and nothing can be inserted
skipReturn(p) ==
  [p EXCEPT !.currentStepIndex = @ + 1, !.skippedStep = TRUE,
            !.lastStepSuccessful = FALSE]

\* executeNextStep when the cursor has consumed all steps
endReturn(p) == [p EXCEPT !.completed = TRUE]

\* a variant of the end branch that records a checkpoint
endStateCheckpointing(sm) == createCheckpoint(sm, "plan_completed")

\* the end branch does not touch the state manager
endState(sm) == sm

-----------------------------------------------------------------------------
(* Inputs *)

TaskIds == <<"t1", "t2", "t3", "t4">>

ResolverTypes ==
  {"MEMORY_CHECK", "INTENT_CLASSIFICATION", "TOOL_SELECTION", "VERIFICATION", "GENERIC"}

\* a task names at most one dependency: a task of the list (itself included)
\* or an id that names no task
DepChoices(n) == {<<>>} \cup {<<d>> : d \in {TaskIds[k] : k \in 1..n} \cup {"ghost"}}

\* a task of a list of n tasks, its id left to its position
TaskShapes(n) ==
  [type : ResolverTypes, dependencies : DepChoices(n), priority : 1..MaxPriority]

\* the validated task list of decomposeQuery, ids pairwise distinct
TasksOf(shapes) ==
  [i \in DOMAIN shapes |->
     Task(TaskIds[i], shapes[i].type, shapes[i].dependencies, shapes[i].priority, FALSE)]

\* the decomposer's answer holds a JSON array of tasks
Parsed(list) == [ok |-> TRUE, tasks |-> list, rejected |-> FALSE]

\* the answer holds no JSON array, or the decomposer throws an Error:
\* decomposeQuery returns the default tasks
Unparsed == [ok |-> FALSE, tasks |-> <<>>, rejected |-> FALSE]

\* the decomposer rejects with undefined: error.message in the catch block of
\* decomposeQuery throws, so decomposeQuery itself rejects
Rejected == [ok |-> FALSE, tasks |-> <<>>, rejected |-> TRUE]

\* the decomposer answers the executor is run on
DecomposerOutputs ==
  { Unparsed,
    Parsed(<<>>),
    Parsed(<<Task("t1", "SYNTHESIS", <<>>, 3, FALSE)>>),
    Parsed(<<Task("t1", "INTENT_CLASSIFICATION", <<>>, 3, TRUE),
             Task("t2", "GENERIC", <<"t1">>, 3, TRUE)>>) }

\* the runs explored: every answer with a message that does not mention
\* GitHub, and the default plan with one that does
Runs ==
  {<<reply, [github |-> FALSE]>> : reply \in DecomposerOutputs}
    \cup {<<Unparsed, [github |-> TRUE]>>}

-----------------------------------------------------------------------------
(* State *)

SM == [tasks |-> tasks, results |-> results, approaches |-> approaches,
       arrays |-> arrays, checkpoints |-> checkpoints, nextSerial |-> nextSerial]

SetSM(sm) ==
  /\ tasks' = sm.tasks
  /\ results' = sm.results
  /\ approaches' = sm.approaches
  /\ arrays' = sm.arrays
  /\ checkpoints' = sm.checkpoints
  /\ nextSerial' = sm.nextSerial

NoStep == [id |-> "", type |-> "", optional |-> FALSE, dependencies |-> <<>>]

NoCall ==
  [step |-> NoStep, cursor |-> 0, error |-> ThrownNothing, alternative |-> "",
   returned |-> NullResult, normal |-> "", calls |-> 0, throws |-> 0,
   dispatched |-> 0, inserted |-> 0, atEnd |-> FALSE, initialSteps |-> 0,
   budget |-> 0, confidence |-> 0, restored |-> "", name |-> "",
   limit |-> MaxCalls, session |-> 0]

\* no second plan exists
NoPeer == [pc |-> "none"]

\* budget: how many times collaborators throw at most in the run
InitBudget(reply, ctx, budget) ==
  /\ pc = "start"
  /\ raw = reply
  /\ context = ctx
  /\ decomposed = <<>>
  /\ warnings = {}
  /\ plan = newPlan(<<>>)
  /\ tasks = NewStateManager.tasks
  /\ results = NewStateManager.results
  /\ approaches = NewStateManager.approaches
  /\ arrays = NewStateManager.arrays
  /\ checkpoints = NewStateManager.checkpoints
  /\ nextSerial = NewStateManager.nextSerial
  /\ peer = NoPeer
  /\ call = [NoCall EXCEPT !.budget = budget]

InitState(reply, ctx) == InitBudget(reply, ctx, MaxThrows)

Init == \E run \in Runs : InitState(run[1], run[2])

\* one small plan with collaborators that throw once more
InitFaults ==
  InitBudget(Parsed(<<Task("t1", "SYNTHESIS", <<>>, 3, FALSE)>>), [github |-> FALSE],
             MaxFaults)

InitResolver ==
  \/ \E n \in 0..MaxTasks : \E shapes \in [1..n -> TaskShapes(n)] :
       InitState(Parsed(TasksOf(shapes)), [github |-> FALSE])
  \/ \E reply \in {Unparsed, Rejected} : InitState(reply, [github |-> FALSE])

-----------------------------------------------------------------------------
(* Actions *)

\* planQueryExecution, the awaited decomposeQuery included; when
\* decomposeQuery rejects, the catch block builds the plan of getDefaultSteps.
\* new ReasoningStateManager() has empty Maps of its own; the arrays other
\* objects already hold stay where they are
PlanQueryExecution ==
  /\ pc = "start"
  /\ decomposed' = IF raw.rejected THEN <<>> ELSE decomposeQuery(raw)
  /\ warnings' = IF raw.ok THEN topoState(enforceLogicalDependencies(raw.tasks)).dropped
                           ELSE {}
  /\ plan' = IF raw.rejected
               THEN [newPlan(getDefaultSteps) EXCEPT !.error = RejectionError]
               ELSE newPlan(planSteps(decomposed'))
  /\ SetSM(initializePlan([NewStateManager EXCEPT !.arrays = arrays], plan'.steps))
  /\ call' = [call EXCEPT !.initialSteps = Len(plan'.steps)]
  /\ pc' = "ready"
  /\ UNCHANGED <<raw, context, peer>>

\* executeNextStep on a plan whose steps are all consumed
ExecuteNextStepAtEnd ==
  /\ pc = "ready"
  /\ plan.currentStepIndex >= Len(plan.steps)
  /\ plan' = endReturn(plan)
  /\ SetSM(endState(SM))
  /\ call' = [call EXCEPT !.atEnd = TRUE]
  /\ UNCHANGED <<pc, raw, context, decomposed, warnings, peer>>

\* executeNextStep up to its first await
ExecuteNextStep ==
  /\ pc = "ready"
  /\ plan.currentStepIndex < Len(plan.steps)
  /\ call.calls < call.limit
  /\ LET e == enterStep(plan.steps, plan.currentStepIndex, plan.results, SM, 0)
         p == [plan EXCEPT !.steps = e.steps]
     IN  /\ SetSM(e.sm)
         /\ plan' = IF e.how = "skip" THEN skipReturn(p) ELSE p
         /\ pc' = CASE e.how = "dispatch" -> "dispatched"
                    [] e.how = "skip" -> "ready"
                    [] e.how = "throw" -> "threw"
         /\ call' = [call EXCEPT !.step = e.step,
                                 !.cursor = plan.currentStepIndex,
                                 !.error = ThrownNothing,
                                 !.alternative = "",
                                 !.returned = NullResult,
                                 !.normal = "",
                                 !.calls = @ + 1,
                                 !.dispatched = IF e.how = "dispatch" THEN 1 ELSE 0,
                                 !.inserted = e.inserted,
                                 !.atEnd = FALSE]
  /\ UNCHANGED <<raw, context, decomposed, warnings, peer>>

\* the awaited execute* function resolves
CollaboratorReturns ==
  /\ pc = "dispatched"
  /\ \E stepResult \in normalResults(call.step, plan.results) :
       /\ SetSM(recordSuccess(SM, call.step.id, stepResult))
       /\ plan' = successReturn(plan, call.step, stepResult, "")
       /\ call' = [call EXCEPT !.returned = stepResult, !.normal = "returned"]
  /\ pc' = "ready"
  /\ UNCHANGED <<raw, context, decomposed, warnings, peer>>

\* the awaited execute* function throws: the catch block up to its await
CollaboratorThrows ==
  /\ pc = "dispatched"
  /\ call.throws < call.budget
  /\ \E error \in normalThrows(call.step) :
       LET failed == recordFailure(SM, call.step.id, call.step.type, error.message)
           alternative == suggestAlternativeApproach(failed, call.step.id, context)
           retry == alternative.approach \notin {"null", "ASK_CLARIFICATION"}
           retryResult == ErrorPayload
       IN  IF ~error.hasMessage
             THEN /\ pc' = "threw"
                  /\ call' = [call EXCEPT !.throws = @ + 1, !.error = error, !.normal = "threw"]
                  /\ UNCHANGED <<plan, smVars>>
           ELSE IF retry /\ alternative.approach \in AwaitedApproaches
             THEN /\ pc' = "retrying"
                  /\ SetSM(failed)
                  /\ call' = [call EXCEPT !.throws = @ + 1, !.error = error, !.normal = "threw",
                                          !.alternative = alternative.approach]
                  /\ UNCHANGED plan
           ELSE IF retry
             THEN /\ pc' = "ready"
                  /\ SetSM(recordSuccess(failed, call.step.id, retryResult))
                  /\ plan' = successReturn(plan, call.step, retryResult, alternative.approach)
                  /\ call' = [call EXCEPT !.throws = @ + 1, !.error = error, !.normal = "threw",
                                          !.alternative = alternative.approach]
           ELSE /\ pc' = "ready"
                /\ SetSM(failureState(failed, call.step))
                /\ plan' = failureReturn(plan, call.step, error)
                /\ call' = [call EXCEPT !.throws = @ + 1, !.error = error, !.normal = "threw"]
  /\ UNCHANGED <<raw, context, decomposed, warnings, peer>>

\* the awaited collaborator of the alternative approach resolves
AlternativeReturns ==
  /\ pc = "retrying"
  /\ \E retryResult \in alternativeResults(call.alternative) :
       /\ SetSM(recordSuccess(SM, call.step.id, retryResult))
       /\ plan' = successReturn(plan, call.step, retryResult, call.alternative)
  /\ pc' = "ready"
  /\ UNCHANGED <<raw, context, decomposed, warnings, call, peer>>

\* the awaited collaborator of the alternative approach throws
AlternativeThrows ==
  /\ pc = "retrying"
  /\ call.throws < call.budget
  /\ \E retryError \in alternativeThrows(call.alternative) :
       LET failed == recordFailure(SM, call.step.id, call.alternative, retryError.message)
       IN  /\ SetSM(failureState(failed, call.step))
           /\ plan' = failureReturn(plan, call.step, call.error)
  /\ call' = [call EXCEPT !.throws = @ + 1]
  /\ pc' = "ready"
  /\ UNCHANGED <<raw, context, decomposed, warnings, peer>>

Next ==
  \/ PlanQueryExecution
  \/ ExecuteNextStepAtEnd
  \/ ExecuteNextStep
  \/ CollaboratorReturns
  \/ CollaboratorThrows
  \/ AlternativeReturns
  \/ AlternativeThrows

Spec == Init /\ [][Next]_vars

\* the executor on one plan, its collaborators throwing up to MaxFaults times
SpecFaults == InitFaults /\ [][Next]_vars

\* the resolver and the plan builder on every small task list
SpecResolver == InitResolver /\ [][PlanQueryExecution]_vars

\* Lists for the injection of logical dependencies: a TOOL_SELECTION task and
\* its two predecessor types, so that a list holds two tasks of a required
\* type.  A task names no dependency, the first task of the list, or an id
\* that names no task.
InjectionShapes ==
  [type : {"MEMORY_CHECK", "INTENT_CLASSIFICATION", "TOOL_SELECTION"},
   dependencies : {<<>>, <<TaskIds[1]>>, <<"ghost">>},
   priority : {1, 2}]

InitInjection ==
  \E n \in 0..MaxInjected : \E shapes \in [1..n -> InjectionShapes] :
    InitState(Parsed(TasksOf(shapes)), [github |-> FALSE])

SpecInjection == InitInjection /\ [][PlanQueryExecution]_vars

-----------------------------------------------------------------------------
(* The ReasoningStateManager as an object: a caller that holds
   plan.stateManager calls its methods in any order. *)

ManagerSteps ==
  << [id |-> "t1", type |-> "SYNTHESIS", optional |-> FALSE, dependencies |-> <<>>],
     [id |-> "t2", type |-> "TOOL_SELECTION", optional |-> FALSE, dependencies |-> <<>>] >>

\* the task ids the caller passes: one of the plan and one that is not registered
ManagerIds == {"t1", "t9"}

ManagerResults == {Result(TRUE, TRUE), ErrorPayload}

InitManager ==
  /\ pc = "manager"
  /\ raw = Parsed(<<>>)
  /\ context = [github |-> FALSE]
  /\ decomposed = <<>>
  /\ warnings = {}
  /\ plan = newPlan(<<>>)
  /\ tasks = NewStateManager.tasks
  /\ results = NewStateManager.results
  /\ approaches = NewStateManager.approaches
  /\ arrays = NewStateManager.arrays
  /\ checkpoints = NewStateManager.checkpoints
  /\ nextSerial = NewStateManager.nextSerial
  /\ peer = NoPeer
  /\ call = NoCall

\* A method that ends with createCheckpoint: it returns with the checkpoint
\* stored, or createCheckpoint throws and what was written before it stays.
EndsWithCheckpoint(before, name) ==
  IF createCheckpointThrows(before)
    THEN /\ SetSM(before)
         /\ call' = [call EXCEPT !.normal = "threw", !.calls = @ + 1, !.alternative = "",
                                  !.restored = "", !.name = ""]
    ELSE /\ SetSM(createCheckpoint(before, name))
         /\ call' = [call EXCEPT !.normal = "returned", !.calls = @ + 1, !.alternative = "",
                                  !.restored = "", !.name = ""]

InitializePlan ==
  /\ pc = "manager"
  /\ call.calls < MaxManagerCalls
  /\ \E n \in 1..Len(ManagerSteps) :
       EndsWithCheckpoint([SM EXCEPT !.tasks = registerSteps(@, SubSeq(ManagerSteps, 1, n), 1)],
                          "plan_initialized")
  /\ UNCHANGED <<pc, raw, context, decomposed, warnings, plan, peer>>

UpdateTaskState ==
  /\ pc = "manager"
  /\ call.calls < MaxManagerCalls
  /\ \E taskId \in ManagerIds, newState \in Range(TASK_STATES) :
       SetSM(updateTaskState(SM, taskId, newState))
  /\ call' = [call EXCEPT !.normal = "returned", !.calls = @ + 1, !.alternative = "",
                           !.restored = "", !.name = ""]
  /\ UNCHANGED <<pc, raw, context, decomposed, warnings, plan, peer>>

RecordSuccess ==
  /\ pc = "manager"
  /\ call.calls < MaxManagerCalls
  /\ \E taskId \in ManagerIds, result \in ManagerResults :
       EndsWithCheckpoint(successRecorded(SM, taskId, result),
                          "task_" \o taskId \o "_completed")
  /\ UNCHANGED <<pc, raw, context, decomposed, warnings, plan, peer>>

RecordFailure ==
  /\ pc = "manager"
  /\ call.calls < MaxManagerCalls
  /\ \E taskId \in ManagerIds, approach \in {"WEB_SEARCH", "READ_URL"} :
       EndsWithCheckpoint(failureRecorded(SM, taskId, approach, <<"boom">>),
                          "task_" \o taskId \o "_failed")
  /\ UNCHANGED <<pc, raw, context, decomposed, warnings, plan, peer>>

CreateCheckpoint ==
  /\ pc = "manager"
  /\ call.calls < MaxManagerCalls
  /\ EndsWithCheckpoint(SM, "manual")
  /\ UNCHANGED <<pc, raw, context, decomposed, warnings, plan, peer>>

\* the value returned is kept in call.restored, the name given in call.name
RestoreCheckpoint ==
  /\ pc = "manager"
  /\ call.calls < MaxManagerCalls
  /\ \E name \in {checkpoints[i].name : i \in DOMAIN checkpoints} \cup {"missing"} :
       /\ SetSM(restoreCheckpoint(SM, name))
       /\ call' = [call EXCEPT !.normal = "returned", !.calls = @ + 1, !.alternative = "",
                                !.restored = IF findCheckpoint(SM, name) = 0 THEN "false"
                                                                             ELSE "true",
                                !.name = name]
  /\ UNCHANGED <<pc, raw, context, decomposed, warnings, plan, peer>>

\* suggestAlternativeApproach reads the state manager and writes nothing; the
\* approach of its suggestion ("null" for none) is kept as the value returned.
SuggestAlternativeApproach ==
  /\ pc = "manager"
  /\ \E taskId \in ManagerIds, github \in BOOLEAN :
       call' = [call EXCEPT !.normal = "returned",
                            !.alternative =
                              suggestAlternativeApproach(SM, taskId, [github |-> github]).approach,
                            !.restored = "", !.name = ""]
  /\ UNCHANGED <<pc, raw, context, decomposed, warnings, plan, smVars, peer>>

NextManager ==
  \/ SuggestAlternativeApproach
  \/ InitializePlan
  \/ UpdateTaskState
  \/ RecordSuccess
  \/ RecordFailure
  \/ CreateCheckpoint
  \/ RestoreCheckpoint

SpecManager == InitManager /\ [][NextManager]_vars

-----------------------------------------------------------------------------
(* The Advisor: suggestAlternativeApproach on the failure histories that
   recordFailure builds for one task. *)

AdvisorTypes == {"INFORMATION_GATHERING", "SYNTHESIS", "TOOL_SELECTION"}

\* the approach labels the executor records for alternatives, and the fifth
\* label the Advisor looks for
AdvisorApproaches ==
  {"WEB_SEARCH", "READ_URL", "MEMORY_CHECK", "REASONING_TOOL", "DIRECT_SYNTHESIS"}

\* the executor's messages, the other URL message, and two messages that each
\* pass one half of the parameter test (lines 126, 128)
AdvisorMessages ==
  Messages \cup {<<"Invalid URL">>, <<"Missing required parameter", ": ", "url">>,
                 <<"problem">>}

AdvisorTask == "t1"

InitAdvisor ==
  /\ pc = "advisor"
  /\ raw = Parsed(<<>>)
  /\ context = [github |-> FALSE]
  /\ decomposed = <<>>
  /\ warnings = {}
  /\ plan = newPlan(<<>>)
  /\ tasks = NewStateManager.tasks
  /\ results = NewStateManager.results
  /\ approaches = NewStateManager.approaches
  /\ arrays = NewStateManager.arrays
  /\ checkpoints = NewStateManager.checkpoints
  /\ nextSerial = NewStateManager.nextSerial
  /\ peer = NoPeer
  /\ call = NoCall

\* initializePlan with a plan of one task
AdvisorInitializePlan ==
  /\ pc = "advisor"
  /\ DOMAIN tasks = {}
  /\ \E type \in AdvisorTypes :
       SetSM(initializePlan(SM, <<[id |-> AdvisorTask, type |-> type, optional |-> FALSE,
                                   dependencies |-> <<>>]>>))
  /\ UNCHANGED <<pc, raw, context, decomposed, warnings, plan, call, peer>>

\* recordFailure for the task.  From the third failure on the Advisor returns
\* before it reads a message (line 104), so one message is explored there.
AdvisorRecordFailure ==
  /\ pc = "advisor"
  /\ AdvisorTask \in DOMAIN tasks
  /\ Len(failedApproaches(SM, AdvisorTask)) < MaxFailures
  /\ \E approach \in AdvisorApproaches :
       \E message \in IF Len(failedApproaches(SM, AdvisorTask)) < 2
                        THEN AdvisorMessages ELSE {<<"boom">>} :
         SetSM(recordFailure(SM, AdvisorTask, approach, message))
  /\ call' = [call EXCEPT !.alternative = "", !.confidence = 0]
  /\ UNCHANGED <<pc, raw, context, decomposed, warnings, plan, peer>>

\* suggestAlternativeApproach for the task: the suggestion is kept in call
AdvisorSuggests ==
  /\ pc = "advisor"
  /\ AdvisorTask \in DOMAIN tasks
  /\ \E github \in BOOLEAN :
       LET alternative == suggestAlternativeApproach(SM, AdvisorTask, [github |-> github])
       IN  call' = [call EXCEPT !.alternative = alternative.approach,
                                !.confidence = alternative.confidence]
  /\ UNCHANGED <<pc, raw, context, decomposed, warnings, plan, smVars, peer>>

NextAdvisor ==
  \/ AdvisorInitializePlan
  \/ AdvisorRecordFailure
  \/ AdvisorSuggests

SpecAdvisor == InitAdvisor /\ [][NextAdvisor]_vars

-----------------------------------------------------------------------------
(* Two plans in one process.  A caller makes two planQueryExecution calls and
   drives the two plans with executeNextStep in any order; every await of
   executeNextStep lets the call on the other plan run.  One plan is in the
   variables, the other is suspended in peer; the failure arrays of both live
   in the one heap, as the objects of both live in the one JavaScript heap. *)

Sessions == {1, 2}

\* the plan in the variables, put aside
Suspended ==
  [pc |-> pc, raw |-> raw, context |-> context, decomposed |-> decomposed,
   warnings |-> warnings, plan |-> plan, tasks |-> tasks, results |-> results,
   approaches |-> approaches, checkpoints |-> checkpoints,
   nextSerial |-> nextSerial, call |-> call]

\* the second plan is driven one call less than the first
SessionCall(n) ==
  [NoCall EXCEPT !.budget = MaxSessionThrows,
                 !.limit = MaxSessionCalls - (n - 1),
                 !.session = n]

InitSessions ==
  /\ pc = "start"
  /\ raw = Parsed(<<>>)
  /\ context = [github |-> FALSE]
  /\ decomposed = <<>>
  /\ warnings = {}
  /\ plan = newPlan(<<>>)
  /\ tasks = NewStateManager.tasks
  /\ results = NewStateManager.results
  /\ approaches = NewStateManager.approaches
  /\ arrays = NewStateManager.arrays
  /\ checkpoints = NewStateManager.checkpoints
  /\ nextSerial = NewStateManager.nextSerial
  /\ call = SessionCall(1)
  /\ peer = [pc |-> "start", raw |-> Parsed(<<>>), context |-> [github |-> TRUE],
             decomposed |-> <<>>, warnings |-> {}, plan |-> newPlan(<<>>),
             tasks |-> NewStateManager.tasks, results |-> NewStateManager.results,
             approaches |-> NewStateManager.approaches,
             checkpoints |-> NewStateManager.checkpoints,
             nextSerial |-> NewStateManager.nextSerial, call |-> SessionCall(2)]

\* the event loop runs the call on the other plan
SwitchSession ==
  /\ peer.pc # "none"
  /\ peer' = Suspended
  /\ pc' = peer.pc
  /\ raw' = peer.raw
  /\ context' = peer.context
  /\ decomposed' = peer.decomposed
  /\ warnings' = peer.warnings
  /\ plan' = peer.plan
  /\ tasks' = peer.tasks
  /\ results' = peer.results
  /\ approaches' = peer.approaches
  /\ checkpoints' = peer.checkpoints
  /\ nextSerial' = peer.nextSerial
  /\ call' = peer.call
  /\ UNCHANGED arrays

\* the collaborators of a retry resolve here; a plan is not driven to its end
NextSessions ==
  \/ PlanQueryExecution
  \/ ExecuteNextStep
  \/ CollaboratorReturns
  \/ CollaboratorThrows
  \/ AlternativeReturns
  \/ SwitchSession

SpecSessions == InitSessions /\ [][NextSessions]_vars

-----------------------------------------------------------------------------
(* Properties *)

Returned == pc = "ready" /\ call.calls > 0

DependsOn(step, id) == \E k \in DOMAIN step.dependencies : step.dependencies[k] = id

\* C1: every plan is completed after a number of executeNextStep calls bounded
\* by a function of its initial number of steps: each initial step is
\* dispatched once, after at most three fixing tasks (the chain VERIFICATION,
\* SYNTHESIS, INFORMATION_GATHERING, TOOL_SELECTION), so 4 * initialSteps calls
\* are enough whatever the collaborators do.
C1_PlanTerminates ==
  (Returned /\ call.calls >= 4 * call.initialSteps) => plan.completed

\* C2: in the order of the returned plan every task of the decomposed list
\* comes after every task of the list it depends on (original or injected),
\* except for an edge dropped to break a cycle.
C2_DependencyOrder ==
  pc = "ready" =>
    \A i, j \in DOMAIN plan.steps :
      ( /\ i # j
        /\ DependsOn(plan.steps[i], plan.steps[j].id)
        /\ <<plan.steps[i].id, plan.steps[j].id>> \notin warnings ) => j < i

\* C3: when a task is in_progress and dispatched, each of its dependencies
\* that names a task of the plan is completed in the state manager.
C3_DependenciesGateExecution ==
  pc = "dispatched" =>
    \A k \in DOMAIN call.step.dependencies :
      call.step.dependencies[k] \in IdsOf(plan.steps) =>
        tasks[call.step.dependencies[k]].state = TASK_STATES.COMPLETED

\* C4: when the collaborator dispatched for the task returned an error
\* payload (success=false with an error), the call that returns has recorded
\* a failure for the task, has not marked it completed and does not return
\* lastStepSuccessful=true.
C4_ErrorPayloadIsFailure ==
  (Returned /\ call.normal = "returned" /\ call.returned = ErrorPayload) =>
    /\ tasks[call.step.id].state # TASK_STATES.COMPLETED
    /\ ~plan.lastStepSuccessful
    /\ Len(failedApproaches(SM, call.step.id)) > 0

\* C5: no executeNextStep call throws or rejects, whatever the collaborators
\* throw or return.
C5_FailuresNeverEscape == pc # "threw"

\* C6: every executeNextStep call made with the cursor inside the plan returns
\* a plan whose cursor is the input cursor plus one, having dispatched exactly
\* one task; and completed is true in a returned plan exactly when the cursor
\* has consumed all steps.
C6_OneTaskPerCall ==
  /\ (call.calls > 0 /\ ~call.atEnd /\ pc \notin {"dispatched", "retrying"}) =>
       /\ pc = "ready"
       /\ plan.currentStepIndex = call.cursor + 1
       /\ call.dispatched = 1
  /\ (pc = "ready" /\ (call.calls > 0 \/ call.atEnd)) =>
       (plan.completed <=> plan.currentStepIndex >= Len(plan.steps))

\* C7: a call on a plan whose steps are all consumed returns the plan with
\* completed=true and the same steps, cursor and results, awaits no
\* collaborator and leaves task states, stored results, failure histories and
\* checkpoints as they are; on a plan already marked completed it changes
\* nothing at all.
C7_IdempotentAtEnd ==
  [][ (pc = "ready" /\ plan.currentStepIndex >= Len(plan.steps)) =>
        /\ pc' = "ready"
        /\ plan'.completed
        /\ plan'.steps = plan.steps
        /\ plan'.currentStepIndex = plan.currentStepIndex
        /\ plan'.results = plan.results
        /\ plan.completed => plan' = plan
        /\ UNCHANGED <<tasks, results, approaches, arrays, checkpoints>> ]_vars

\* a call was made on a plan whose steps were all consumed, after at least one
\* task had been executed
C7_Witness == call.atEnd /\ plan.completed /\ Len(plan.results) > 0

\* C8: a task whose state has left pending is never pending again.
C8_NoReturnToPending ==
  [][ \A id \in DOMAIN tasks :
        tasks[id].state # TASK_STATES.PENDING =>
          tasks'[id].state # TASK_STATES.PENDING ]_vars

\* C9: the steps of a plan have pairwise distinct ids.
C9_UniqueTaskIds == DistinctIds(plan.steps)

\* what a checkpoint shows of the failure histories: the arrays its Map holds
FailuresShown(checkpoint, heap) ==
  [id \in DOMAIN checkpoint.approachesSnapshot |->
     heap[checkpoint.approachesSnapshot[id]]]

\* C10: a stored checkpoint never changes: the task states, results and
\* failure histories it shows stay what they were when it was created.
C10_CheckpointsImmutable ==
  [][ \A i \in DOMAIN checkpoints, j \in DOMAIN checkpoints' :
        checkpoints[i].serial = checkpoints'[j].serial =>
          /\ checkpoints'[j].taskStates = checkpoints[i].taskStates
          /\ checkpoints'[j].resultsSnapshot = checkpoints[i].resultsSnapshot
          /\ FailuresShown(checkpoints'[j], arrays') = FailuresShown(checkpoints[i], arrays) ]_vars

\* C11: restoring any retained checkpoint and taking a checkpoint right after
\* gives a checkpoint with the task states, results and failure histories of
\* the restored one, and after the restore every task of the checkpoint has
\* in the live state manager the state the checkpoint holds for it.
C11_CheckpointRoundTrip ==
  pc = "manager" =>
    \A i \in DOMAIN checkpoints :
      LET restored == restoreCheckpoint(SM, checkpoints[i].name)
          again == createCheckpoint(restored, "again")
          new == again.checkpoints[Len(again.checkpoints)]
      IN  /\ ~createCheckpointThrows(restored)
          /\ new.taskStates = checkpoints[i].taskStates
          /\ new.resultsSnapshot = checkpoints[i].resultsSnapshot
          /\ FailuresShown(new, again.arrays) = FailuresShown(checkpoints[i], arrays)
          /\ \A id \in DOMAIN checkpoints[i].taskStates :
                restored.tasks[id].state = checkpoints[i].taskStates[id]

\* the positions of the entries of a results log for the task of an id
EntriesOf(planResults, id) == {k \in DOMAIN planResults : planResults[k].step.id = id}

\* no collaborator threw and none returned an error payload or nothing
AllSucceeded ==
  /\ call.throws = 0
  /\ \A k \in DOMAIN plan.results :
        ~plan.results[k].result.error /\ ~plan.results[k].result.isNull

SingleSynthesisRun ==
  /\ pc = "ready"
  /\ raw = Parsed(<<Task("t1", "SYNTHESIS", <<>>, 3, FALSE)>>)
  /\ plan.completed
  /\ AllSucceeded

\* C12: for the decomposition [t1 SYNTHESIS, no dependencies] and collaborators
\* that all succeed, the completed plan has an INFORMATION_GATHERING fixing
\* task immediately before t1 in plan.steps, and plan.results has an entry for
\* that fixing task before the entry for t1.
C12_FixingTaskScenario ==
  SingleSynthesisRun =>
    \E i \in DOMAIN plan.steps :
      /\ i > 1
      /\ plan.steps[i].id = "t1"
      /\ plan.steps[i - 1].type = "INFORMATION_GATHERING"
      /\ plan.steps[i - 1].id = "fix-t1"
      /\ EntriesOf(plan.results, "fix-t1") # {}
      /\ EntriesOf(plan.results, "t1") # {}
      /\ \A a \in EntriesOf(plan.results, "fix-t1"), b \in EntriesOf(plan.results, "t1") : a < b

C12_Witness == SingleSynthesisRun /\ Len(plan.results) = Len(plan.steps)

\* C13: the fixing tasks a call inserts have no dependencies, and they are
\* spliced at the cursor: the steps before the cursor keep their positions and
\* the task that was at the cursor follows the inserted tasks directly.
C13_FixingTasksHaveNoDependencies ==
  [][ (pc = "ready" /\ Len(plan'.steps) > Len(plan.steps)) =>
        LET inserted == Len(plan'.steps) - Len(plan.steps)
            cursor == plan.currentStepIndex
        IN  /\ \A i \in 1..cursor : plan'.steps[i] = plan.steps[i]
            /\ \A i \in (cursor + 1)..Len(plan.steps) :
                  plan'.steps[i + inserted] = plan.steps[i]
            /\ \A i \in (cursor + 1)..(cursor + inserted) :
                  plan'.steps[i].dependencies = <<>> ]_vars

\* C14: every approach the Advisor returns, other than none, "default" (no
\* failure yet) and ASK_CLARIFICATION, is one the catch block of
\* executeNextStep runs through an awaited collaborator, and the escalation
\* DIRECT_RESPONSE can give a result that is not an error payload.
C14_AlternativesRunByCollaborator ==
  call.alternative \notin {"", "null", "default", "ASK_CLARIFICATION"} =>
    /\ call.alternative \in AwaitedApproaches
    /\ call.alternative = "DIRECT_RESPONSE" =>
         \E retryResult \in alternativeResults(call.alternative) : ~retryResult.error

\* C15: over a whole plan run no task accumulates more than two entries in its
\* failure history (one for the normal dispatch and one for the alternative
\* approach of the single call that executes it).
C15_TwoAttemptsPerTask ==
  \A id \in DOMAIN tasks : Len(failedApproaches(SM, id)) <= 2

\* the step in which the collaborator dispatched for the current task throws
\* and no alternative is to be run, or the collaborator of the alternative
\* throws
UnrecoveredFailure ==
  /\ call'.throws = call.throws + 1
  /\ \/ pc = "retrying"
     \/ pc = "dispatched" /\ call'.alternative = ""

\* C16: when the normal dispatch of the current task throws and no alternative
\* is run or the alternative throws too, the call returns with the task
\* skipped if it is optional and failed otherwise, in which case plan.error
\* is the message of the failure; the cursor has advanced by one,
\* lastStepSuccessful is false and plan.results is unchanged.
C16_UnrecoveredFailureOutcome ==
  [][ UnrecoveredFailure =>
        /\ pc' = "ready"
        /\ tasks'[call.step.id].state =
             IF call.step.optional THEN TASK_STATES.SKIPPED ELSE TASK_STATES.FAILED
        /\ ~call.step.optional => plan'.error = call'.error.message
        /\ plan'.currentStepIndex = plan.currentStepIndex + 1
        /\ ~plan'.lastStepSuccessful
        /\ plan'.results = plan.results ]_vars

\* the results log after a step begins with the log before it
ResultsExtended ==
  /\ Len(plan.results) <= Len(plan'.results)
  /\ SubSeq(plan'.results, 1, Len(plan.results)) = plan.results

\* the step that ends a call in which a collaborator was awaited
DispatchedCallReturns == pc \in {"dispatched", "retrying"} /\ pc' = "ready"

\* C17: plan.results only grows at its end, and a call that executed a task
\* appends exactly one entry, for that task, unless the task was skipped, in
\* which case it appends none.
C17_ResultsLog ==
  [][ /\ ResultsExtended
      /\ DispatchedCallReturns =>
           IF tasks'[call.step.id].state = TASK_STATES.SKIPPED
             THEN plan'.results = plan.results
             ELSE /\ Len(plan'.results) = Len(plan.results) + 1
                  /\ plan'.results[Len(plan'.results)].step = call.step ]_vars

\* the changes of state the task state machine allows
AllowedTransitions ==
  { <<TASK_STATES.PENDING, TASK_STATES.IN_PROGRESS>>,
    <<TASK_STATES.IN_PROGRESS, TASK_STATES.COMPLETED>>,
    <<TASK_STATES.IN_PROGRESS, TASK_STATES.FAILED>>,
    <<TASK_STATES.IN_PROGRESS, TASK_STATES.SKIPPED>>,
    <<TASK_STATES.FAILED, TASK_STATES.IN_PROGRESS>> }

\* C18: every change of a task's state during plan execution is pending ->
\* in_progress, in_progress -> completed, failed or skipped, or failed ->
\* in_progress; so a task becomes completed or skipped only from in_progress.
C18_TaskStateMachine ==
  [][ pc # "start" =>
        \A id \in DOMAIN tasks :
          tasks'[id].state # tasks[id].state =>
            <<tasks[id].state, tasks'[id].state>> \in AllowedTransitions ]_vars

\* the results log holds an entry of the type whose result has success = true
HasSuccessful(planResults, type) ==
  \E k \in DOMAIN planResults :
    planResults[k].step.type = type /\ planResults[k].result.success

\* C19: while a SYNTHESIS task is in_progress and dispatched, plan.results
\* holds a successful INFORMATION_GATHERING entry; for a VERIFICATION task a
\* successful SYNTHESIS entry; for an INFORMATION_GATHERING task a successful
\* TOOL_SELECTION entry.
C19_ValidationGuardsDispatch ==
  (pc = "dispatched" /\ tasks[call.step.id].state = TASK_STATES.IN_PROGRESS) =>
    /\ call.step.type = "SYNTHESIS" => HasSuccessful(plan.results, "INFORMATION_GATHERING")
    /\ call.step.type = "VERIFICATION" => HasSuccessful(plan.results, "SYNTHESIS")
    /\ call.step.type = "INFORMATION_GATHERING" => HasSuccessful(plan.results, "TOOL_SELECTION")

\* a SYNTHESIS task is dispatched although an earlier INFORMATION_GATHERING
\* entry is an error payload
C19_Witness ==
  /\ pc = "dispatched"
  /\ tasks[call.step.id].state = TASK_STATES.IN_PROGRESS
  /\ call.step.type = "SYNTHESIS"
  /\ \E k \in DOMAIN plan.results :
        plan.results[k].step.type = "INFORMATION_GATHERING" /\ plan.results[k].result.error

\* C20: a call that dispatched a VERIFICATION task (so plan.results holds a
\* successful SYNTHESIS entry) and whose collaborator returned has a result
\* with success = true that carries a response, whatever other SYNTHESIS
\* entries plan.results holds.
C20_VerificationSurfacesSynthesis ==
  (Returned /\ call.step.type = "VERIFICATION" /\ call.normal = "returned") =>
    call.returned.success /\ call.returned.response

\* the positions of the steps of a type
StepsOfType(steps, type) == {i \in DOMAIN steps : steps[i].type = type}

\* planQueryExecution returned the plan built in its try block
Planned == pc = "ready" /\ call.calls = 0 /\ ~call.atEnd /\ ~raw.rejected

\* C21: when the decomposed list has no MEMORY_CHECK task the returned plan
\* has exactly one, the synthesized task-memory, first and without
\* dependencies; when it has no VERIFICATION task the plan has exactly one,
\* the synthesized task-verification, last and without dependencies; for a
\* type the list has, nothing is synthesized: the plan holds the tasks of the
\* list and the synthesized ones only.
C21_BookendPlacement ==
  Planned =>
    LET noMemory == StepsOfType(decomposed, "MEMORY_CHECK") = {}
        noVerification == StepsOfType(decomposed, "VERIFICATION") = {}
        last == Len(plan.steps)
    IN  /\ noMemory =>
             /\ StepsOfType(plan.steps, "MEMORY_CHECK") = {1}
             /\ plan.steps[1].id = "task-memory"
             /\ plan.steps[1].dependencies = <<>>
        /\ noVerification =>
             /\ StepsOfType(plan.steps, "VERIFICATION") = {last}
             /\ plan.steps[last].id = "task-verification"
             /\ plan.steps[last].dependencies = <<>>
        /\ last = Len(decomposed) + (IF noMemory THEN 1 ELSE 0)
                                  + (IF noVerification THEN 1 ELSE 0)
        /\ \A i \in DOMAIN decomposed : decomposed[i].id \in IdsOf(plan.steps)

\* a list with a VERIFICATION task and no MEMORY_CHECK task: one bookend is
\* synthesized, the other is not
C21_Witness ==
  /\ Planned
  /\ Len(decomposed) = 2
  /\ StepsOfType(decomposed, "MEMORY_CHECK") = {}
  /\ StepsOfType(decomposed, "VERIFICATION") # {}

\* C22: every plan planQueryExecution returns, from its try block or from its
\* catch block, holds a MEMORY_CHECK task and a VERIFICATION task.
C22_BookendsInEveryPlan ==
  (pc = "ready" /\ call.calls = 0) =>
    /\ StepsOfType(plan.steps, "MEMORY_CHECK") # {}
    /\ StepsOfType(plan.steps, "VERIFICATION") # {}

\* C23: when the decomposer throws or its answer holds no task list, the
\* returned plan starts with the five tasks of the default list, in their
\* order, and its error field is set.
C23_DecompositionFailureKeepsError ==
  (pc = "ready" /\ call.calls = 0 /\ ~raw.ok) =>
    /\ Len(plan.steps) >= Len(getDefaultTasks)
    /\ \A i \in DOMAIN getDefaultTasks : plan.steps[i].type = getDefaultTasks[i].type
    /\ plan.error # NoError

\* the plan of the default tasks was run to completed = true and every
\* collaborator succeeded
DefaultPlanRun ==
  /\ pc = "ready"
  /\ raw = Unparsed
  /\ plan.completed
  /\ AllSucceeded

\* the types of the entries of a results log are the first n canonical types
CanonicalEntries(planResults, n) ==
  /\ Len(planResults) = n
  /\ \A i \in 1..n : planResults[i].step.type = typeOrder[i]

\* C24 (as amended): when the default tasks are substituted and every task
\* succeeds on its first attempt, the completed plan has exactly 6 entries in
\* plan.results, the five default tasks and task-verification in the canonical
\* type order, and getTaskStatus() reports completed 6, failed 0, pending 0.
C24_DefaultPlanScenario ==
  DefaultPlanRun =>
    /\ CanonicalEntries(plan.results, 6)
    /\ plan.results[6].step.id = "task-verification"
    /\ getTaskStatus(SM).completed = 6
    /\ getTaskStatus(SM).failed = 0
    /\ getTaskStatus(SM).pending = 0

\* the default plan was run to its end without a failure
C24_Witness == DefaultPlanRun /\ plan.currentStepIndex = Len(plan.steps)

\* C24 (as stated): the completed default plan has exactly 5 entries in
\* plan.results, in the canonical type order, and getTaskStatus() reports
\* completed 5, failed 0, pending 0.
C24_FiveEntries ==
  DefaultPlanRun =>
    /\ CanonicalEntries(plan.results, 5)
    /\ getTaskStatus(SM).completed = 5
    /\ getTaskStatus(SM).failed = 0
    /\ getTaskStatus(SM).pending = 0

\* the Advisor has returned for the task, whose history is the one it was given
Suggested == pc = "advisor" /\ call.alternative # ""

History == failedApproaches(SM, AdvisorTask)

TriedLabels == {History[i].approach : i \in DOMAIN History}

\* C25: suggestAlternativeApproach returns DIRECT_RESPONSE with confidence 0.6
\* for a registered task exactly when the task's failure history holds three
\* or more distinct approach labels, whatever the task's type and the messages.
C25_EscalationOnDistinctLabels ==
  Suggested =>
    ((call.alternative = "DIRECT_RESPONSE" /\ call.confidence = 6)
       <=> Cardinality(TriedLabels) >= 3)

\* a non-empty history of fewer than three entries (line 104)
BelowThreshold == 0 < Len(History) /\ Len(History) < 3

UrlSignature ==
  \E i \in DOMAIN History :
    Includes(History[i].error, "Invalid URL") \/ Includes(History[i].error, "undefined")

ParameterSignature ==
  \E i \in DOMAIN History :
    /\ Includes(History[i].error, "Missing required parameter")
    /\ Includes(History[i].error, "problem")

SignatureMatched ==
  \/ UrlSignature
  \/ /\ \E i \in DOMAIN History : Includes(History[i].error, "parameter")
     /\ \E i \in DOMAIN History : Includes(History[i].error, "problem")

CollaboratorOrder == <<"WEB_SEARCH", "READ_URL", "MEMORY_CHECK", "REASONING_TOOL">>

InformationGathering == tasks[AdvisorTask].type = "INFORMATION_GATHERING"

AllFourTried == Range(CollaboratorOrder) \subseteq TriedLabels

\* C28: for an INFORMATION_GATHERING task whose tried approaches include all
\* four collaborators but not DIRECT_SYNTHESIS, with no matching error
\* signature, the Advisor returns DIRECT_SYNTHESIS; once DIRECT_SYNTHESIS has
\* been tried too it returns ASK_CLARIFICATION with confidence 0.5.
C28_AfterCollaboratorsExhausted ==
  (Suggested /\ InformationGathering /\ AllFourTried /\ ~SignatureMatched) =>
    IF "DIRECT_SYNTHESIS" \notin TriedLabels
      THEN call.alternative = "DIRECT_SYNTHESIS"
      ELSE call.alternative = "ASK_CLARIFICATION" /\ call.confidence = 5

\* the validated task list of a decomposition, after planQueryExecution has
\* run decomposeQuery on it
Decomposed == pc = "ready" /\ raw.ok /\ DistinctIds(raw.tasks)

SameDependencies(before, after) ==
  /\ Len(after) = Len(before)
  /\ \A i \in DOMAIN before : after[i].dependencies = before[i].dependencies

\* C29: for a task list with pairwise distinct ids, enforceLogicalDependencies
\* applied to the output of enforceLogicalDependencies adds no dependency:
\* every task has the same dependency list after the second application as
\* after the first.
C29_InjectionIdempotent ==
  Decomposed =>
    /\ SameDependencies(enforceLogicalDependencies(raw.tasks),
                        enforceLogicalDependencies(enforceLogicalDependencies(raw.tasks)))
    /\ SameDependencies(decomposed, enforceLogicalDependencies(decomposed))

C29_Witness ==
  /\ Decomposed
  /\ Len(raw.tasks) = 3
  /\ \E i \in DOMAIN raw.tasks :
       Len(enforceLogicalDependencies(raw.tasks)[i].dependencies) = 2
  /\ \E i \in DOMAIN raw.tasks : raw.tasks[i].dependencies = <<"ghost">>

\* the tasks of the list that have the type and are named by the dependencies
NamedOfType(list, dependencies, type) ==
  {m \in DOMAIN list :
     list[m].type = type /\ \E k \in DOMAIN dependencies : dependencies[k] = list[m].id}

HasLeastPriority(list, m) ==
  \A o \in DOMAIN list : list[o].type = list[m].type => list[m].priority <= list[o].priority

\* C30: for every task T and every predecessor type P that the logical-order
\* table requires for T's type: if the list holds a task of type P and T has
\* no dependency on a task of type P, exactly one dependency is added to T,
\* on the task of type P with the smallest priority number; if T already
\* depends on a task of type P, or no task of type P exists, nothing is added
\* for P; no existing dependency is removed.
C30_InjectionTarget ==
  Decomposed =>
    \A i \in DOMAIN raw.tasks :
      \E j \in DOMAIN decomposed :
        LET T == raw.tasks[i]
            after == decomposed[j].dependencies
            kept == Len(T.dependencies)
            added == SubSeq(after, kept + 1, Len(after))
            required == Range(logicalOrder(T.type))
        IN  /\ decomposed[j].id = T.id
            /\ Len(after) >= kept
            /\ SubSeq(after, 1, kept) = T.dependencies
            /\ \A k \in DOMAIN added :
                 \E P \in required : NamedOfType(raw.tasks, <<added[k]>>, P) # {}
            /\ \A P \in required :
                 IF /\ \E m \in DOMAIN raw.tasks : raw.tasks[m].type = P
                    /\ NamedOfType(raw.tasks, T.dependencies, P) = {}
                   THEN /\ Cardinality({k \in DOMAIN added :
                                          NamedOfType(raw.tasks, <<added[k]>>, P) # {}}) = 1
                        /\ \A m \in NamedOfType(raw.tasks, added, P) :
                             HasLeastPriority(raw.tasks, m)
                   ELSE NamedOfType(raw.tasks, added, P) = {}

C30_Witness ==
  /\ Decomposed
  /\ Len(raw.tasks) = 3
  /\ raw.tasks[1].type = "MEMORY_CHECK" /\ raw.tasks[1].priority = 2
  /\ raw.tasks[2].type = "MEMORY_CHECK" /\ raw.tasks[2].priority = 1
  /\ raw.tasks[3].type = "TOOL_SELECTION" /\ raw.tasks[3].dependencies = <<"ghost">>
  /\ \E j \in DOMAIN decomposed :
       decomposed[j].id = raw.tasks[3].id /\ decomposed[j].dependencies = <<"ghost", "t2">>

\* the list handed to sortTasksByDependencies (line 366)
SortInput == enforceLogicalDependencies(raw.tasks)

\* task a of the list depends on task b of the list
Edge(list, a, b) == \E k \in DOMAIN list[a].dependencies : list[a].dependencies[k] = list[b].id

\* C31: for every task list with pairwise distinct ids, cycles,
\* self-dependencies and dependencies that name no task included,
\* sortTasksByDependencies terminates and returns each input task exactly once.
C31_SortIsPermutation ==
  Decomposed =>
    /\ Len(decomposed) = Len(SortInput)
    /\ \A i \in DOMAIN SortInput :
         Cardinality({j \in DOMAIN decomposed : decomposed[j] = SortInput[i]}) = 1

C31_Witness ==
  /\ Decomposed
  /\ Len(decomposed) = 3
  /\ \E a, b \in DOMAIN SortInput :
       a # b /\ Edge(SortInput, a, b) /\ Edge(SortInput, b, a)
  /\ \E a \in DOMAIN SortInput : Edge(SortInput, a, a)
  /\ \E a \in DOMAIN SortInput : "ghost" \in Range(SortInput[a].dependencies)

\* C32: in every plan returned by planQueryExecution, for any decomposer
\* output, and after any number of executeNextStep calls, no task's
\* dependencies holds the task's own id.
C32_NoSelfDependency ==
  pc # "start" =>
    \A i \in DOMAIN plan.steps : ~DependsOn(plan.steps[i], plan.steps[i].id)

\* C33: the checkpoint list never holds more than 10 checkpoints; a
\* createCheckpoint on a full list evicts exactly the oldest one, and the
\* retained checkpoints are the most recently created ones, in creation order.
C33_BoundedCheckpoints ==
  /\ Len(checkpoints) <= MaxCheckpoints
  /\ Len(checkpoints) = IF nextSerial - 1 < MaxCheckpoints THEN nextSerial - 1
                                                            ELSE MaxCheckpoints
  /\ \A i \in DOMAIN checkpoints :
       checkpoints[i].serial = nextSerial - 1 - Len(checkpoints) + i

C33_Witness == Len(checkpoints) = MaxCheckpoints /\ nextSerial > MaxCheckpoints + 2

\* the live maps after the step are the three maps of the checkpoint
RestoredFrom(checkpoint) ==
  /\ DOMAIN tasks' = DOMAIN checkpoint.taskStates
  /\ \A id \in DOMAIN tasks' : tasks'[id].primitive = checkpoint.taskStates[id]
  /\ results' = checkpoint.resultsSnapshot
  /\ approaches' = checkpoint.approachesSnapshot

\* C34: restoreCheckpoint with a name that matches no retained checkpoint
\* returns false and leaves task states, results, failure histories and the
\* checkpoint list unchanged; with a matching name it returns true and
\* replaces the three live maps by the content of one single checkpoint.
C34_RestoreAllOrNothing ==
  [][ call'.restored # "" =>
        IF \A i \in DOMAIN checkpoints : checkpoints[i].name # call'.name
          THEN call'.restored = "false" /\ UNCHANGED smVars
          ELSE /\ call'.restored = "true"
               /\ \E i \in DOMAIN checkpoints :
                    checkpoints[i].name = call'.name /\ RestoredFrom(checkpoints[i])
               /\ UNCHANGED <<checkpoints, arrays, nextSerial>> ]_vars

C34_Witness ==
  /\ pc = "manager"
  /\ call.restored = "true"
  /\ call.name = "plan_initialized"
  /\ Len(checkpoints) = 3
  /\ \E i \in DOMAIN checkpoints : DOMAIN checkpoints[i].resultsSnapshot # DOMAIN results

InProgress == {id \in DOMAIN tasks : tasks[id].state = TASK_STATES.IN_PROGRESS}

\* a collaborator call is awaited: the dispatched one or the alternative
Outstanding == pc \in {"dispatched", "retrying"}

\* C36: during a sequence of awaited executeNextStep calls on a plan at most
\* one task is in_progress at any moment, at most one collaborator call is
\* outstanding, and when executeNextStep has returned no task is in_progress.
C36_OneTaskAtATime ==
  /\ Cardinality(InProgress) <= 1
  /\ InProgress # {} => InProgress = {call.step.id}
  /\ Outstanding => call.dispatched = 1
  /\ pc = "retrying" => InProgress = {}
  /\ pc = "ready" => InProgress = {}

C36_Witness ==
  /\ pc = "dispatched"
  /\ call.inserted > 0
  /\ call.calls > 1
  /\ InProgress = {call.step.id}
  /\ Cardinality(DOMAIN tasks) > 2

\* C38: in the plan returned by executeNextStep, usedAlternative is true only
\* if the task of this call succeeded through an alternative approach,
\* skippedStep only if the task of this call was skipped, and error is set
\* only if the task of this call failed without recovery: flags set by an
\* earlier call do not persist.
C38_FlagsOfThisCall ==
  (Returned /\ ~call.atEnd) =>
    /\ plan.usedAlternative => (call.alternative # "" /\ plan.lastStepSuccessful)
    /\ plan.skippedStep =>
         (~plan.lastStepSuccessful /\ tasks[call.step.id].state = TASK_STATES.SKIPPED)
    /\ plan.error # NoError =>
         (call.normal = "threw" /\ ~plan.lastStepSuccessful /\ ~call.step.optional)

\* C37: after any sequence of state-manager operations (initializePlan,
\* updateTaskState with one of the five states, recordSuccess, recordFailure,
\* createCheckpoint, restoreCheckpoint) the counts of getTaskStatus() add up:
\* pending + inProgress + completed + failed + skipped = total, the number of
\* registered tasks.
C37_StatusCountsPartition ==
  LET status == getTaskStatus(SM)
  IN  /\ status.total = Cardinality(DOMAIN tasks)
      /\ status.pending + status.inProgress + status.completed + status.failed
           + status.skipped = status.total

\* C39: for every registered task and every failure history the Advisor
\* never returns an approach label that is already in the task's failure
\* history, except the terminal answers DIRECT_RESPONSE and ASK_CLARIFICATION.
C39_NeverRepeatsTriedApproach ==
  (Suggested /\ call.alternative \notin {"DIRECT_RESPONSE", "ASK_CLARIFICATION"}) =>
    call.alternative \notin TriedLabels

\* the chain VERIFICATION -> SYNTHESIS -> INFORMATION_GATHERING -> TOOL_SELECTION
FixChain == <<"VERIFICATION", "SYNTHESIS", "INFORMATION_GATHERING", "TOOL_SELECTION">>

\* step j of the plan is the fixing task inserted for step j + 1
FixesNext(steps, j) ==
  /\ steps[j].id = "fix-" \o steps[j + 1].id
  /\ \E c \in 1..(Len(FixChain) - 1) :
       steps[j + 1].type = FixChain[c] /\ steps[j].type = FixChain[c + 1]

\* C40: one executeNextStep call inserts at most 3 fixing tasks (its recursion
\* depth is at most 4), for every plan and every content of plan.results, and
\* the task dispatched in the call is the most recently inserted fixing task.
C40_BoundedFixInsertion ==
  /\ call.inserted <= Len(FixChain) - 1
  /\ (pc = "dispatched" /\ call.inserted > 0) =>
       /\ call.step = plan.steps[call.cursor + 1]
       /\ \A j \in (call.cursor + 1)..(call.cursor + call.inserted) :
            FixesNext(plan.steps, j)

C40_Witness ==
  /\ pc = "dispatched"
  /\ call.inserted = 3
  /\ call.step.type = "TOOL_SELECTION"
  /\ plan.results # <<>>

\* the failure histories a Map of array references shows
HistoriesShown(map, heap) == [id \in DOMAIN map |-> heap[map[id]]]

\* everything of one plan that the claim names: steps, cursor and results of
\* the Plan, and the task states, results, failure histories and checkpoints
\* of its state manager
PlanView(session, heap) ==
  [plan |-> session.plan,
   tasks |-> session.tasks,
   results |-> session.results,
   failures |-> HistoriesShown(session.approaches, heap),
   checkpoints |-> [i \in DOMAIN session.checkpoints |->
                      [session.checkpoints[i] EXCEPT
                         !.approachesSnapshot = HistoriesShown(@, heap)]]]

ViewOf(n) == IF call.session = n THEN PlanView(Suspended, arrays)
                                 ELSE PlanView(peer, arrays)

\* C35: with two plans made by two planQueryExecution calls and their
\* executeNextStep calls interleaved in any order, a step of a call on one plan
\* leaves everything of the other plan as it was: its steps, cursor and
\* results, and its state manager's task states, results, failure histories
\* and checkpoints; passing from the call on one plan to the call on the other
\* changes neither
C35_PlansIsolated ==
  [][\A n \in Sessions :
       (call'.session # call.session \/ call.session # n) => ViewOf(n)' = ViewOf(n)]_vars

\* both plans have a call in flight, the second call of one and the retry of
\* the other, and each has a failed task with its history
C35_Witness ==
  /\ pc = "dispatched" /\ peer.pc = "retrying"
  /\ plan.currentStepIndex > 0
  /\ \E id \in DOMAIN approaches : arrays[approaches[id]] # <<>>
  /\ \E id \in DOMAIN peer.approaches : arrays[peer.approaches[id]] # <<>>
  /\ Len(checkpoints) > 1 /\ Len(peer.checkpoints) > 1

====
